---- MODULE Spec2Model ----
(***************************************************************************)
(* Grid preparation of sofi2dpy (src/sofi2dpy/model_utils.py): the padder  *)
(* pad_model_to_multiple and the domain decomposition search               *)
(* suggest_domain_decomposition_sofi.  Arrays are represented by their     *)
(* shape <<nx, nz>>; integer arithmetic is Python's (floor division,       *)
(* non-negative remainder for a positive divisor), which is also TLA+'s.   *)
(***************************************************************************)
EXTENDS Integers, Sequences, FiniteSets, TLC

VARIABLES pc, args, ret

vars == <<pc, args, ret>>

(* ---- bounds of the explored inputs ------------------------------------ *)
MaxN == 12
MaxCores == 8
MaxFw == 2
MaxOrder == 2
MaxDim == 5
MaxMultiple == 4
MaxModels == 2
MaxSpacing == 4

(* ======================================================================= *)
(* Domain decomposition                                                    *)
(* ======================================================================= *)

MinBlock_dropFactor(fw, fdorder) == fw + 2 * fdorder

MinBlock(fw, fdorder) == 2 * fw + 2 * fdorder

LastNproc_offByOne(max_cores) == max_cores - 1

\* last value of range(1, max_cores + 1)
LastNproc(max_cores) == max_cores

Divisible_xOnly(nx, nz, fx, fy) == nx % fx = 0

\* negation of the test "nx % fx != 0 or nz % fy != 0"
Divisible(nx, nz, fx, fy) == ~(nx % fx # 0 \/ nz % fy # 0)

BigEnough_xOnly(nx, nz, fx, fy, min_block) == ~((nx \div fx) < min_block)

\* negation of the test "local_nx < min_block or local_nz < min_block"
BigEnough(nx, nz, fx, fy, min_block) ==
    LET local_nx == nx \div fx
        local_nz == nz \div fy
    IN  ~(local_nx < min_block \/ local_nz < min_block)

UpdateBest_lastWins(fx, fy, st) ==
    IF fx * fy >= st.best_procs
    THEN [best |-> <<fx, fy>>, best_procs |-> fx * fy]
    ELSE st

UpdateBest_stalePair(fx, fy, st) ==
    IF fx * fy > st.best_procs
    THEN [best |-> st.best, best_procs |-> fx * fy]
    ELSE st

\* "if fx * fy > best_procs: best = (fx, fy); best_procs = fx * fy"
UpdateBest(fx, fy, st) ==
    IF fx * fy > st.best_procs
    THEN [best |-> <<fx, fy>>, best_procs |-> fx * fy]
    ELSE st

\* one iteration of the inner loop body, with its three "continue"s
Candidate(nx, nz, min_block, nproc, fx, st) ==
    IF nproc % fx # 0 THEN st
    ELSE LET fy == nproc \div fx IN
         IF ~Divisible(nx, nz, fx, fy) THEN st
         ELSE IF ~BigEnough(nx, nz, fx, fy, min_block) THEN st
         ELSE UpdateBest(fx, fy, st)

RECURSIVE ScanFx(_, _, _, _, _)
\* for fx in range(1, nproc + 1); it = [fx, st] is the loop variable with
\* the best found so far
ScanFx(nx, nz, min_block, nproc, it) ==
    IF it.fx > nproc THEN it.st
    ELSE ScanFx(nx, nz, min_block, nproc,
                [fx |-> it.fx + 1,
                 st |-> Candidate(nx, nz, min_block, nproc, it.fx, it.st)])

RECURSIVE ScanNproc(_, _, _, _, _)
\* for nproc in range(1, max_cores + 1); it = [nproc, st]
ScanNproc(nx, nz, min_block, max_cores, it) ==
    IF it.nproc > LastNproc(max_cores) THEN it.st
    ELSE ScanNproc(nx, nz, min_block, max_cores,
                   [nproc |-> it.nproc + 1,
                    st |-> ScanFx(nx, nz, min_block, it.nproc,
                                  [fx |-> 1, st |-> it.st])])

Max2(a, b) == IF a >= b THEN a ELSE b

ThreadsPerProc_noFloor(max_cores, best_procs) == Max2(1, max_cores)

\* threads_per_proc = max(1, max_cores // best_procs)
ThreadsPerProc(max_cores, best_procs) == Max2(1, max_cores \div best_procs)

\* The function has no raise statement and no operation that can fail on
\* integers (every divisor is fx >= 1, fy >= 1 or best_procs >= 1), so the
\* call always returns; "raised" records that.
suggest_domain_decomposition_sofi(nx, nz, max_cores, fw, fdorder) ==
    LET min_block == MinBlock(fw, fdorder)
        st0 == [best |-> <<1, 1>>, best_procs |-> 1]
        st  == ScanNproc(nx, nz, min_block, max_cores,
                         [nproc |-> 1, st |-> st0])
    IN  [raised |-> FALSE,
         procs_x |-> st.best[1],
         procs_z |-> st.best[2],
         threads_per_proc |-> ThreadsPerProc(max_cores, st.best_procs),
         total_procs |-> st.best_procs]

(* ======================================================================= *)
(* Padding                                                                 *)
(* ======================================================================= *)

CeilToMultiple_alwaysNext(n, multiple) == ((n \div multiple) + 1) * multiple

\* int(np.ceil(n / multiple) * multiple): the true quotient rounded up
CeilToMultiple(n, multiple) ==
    (IF n % multiple = 0 THEN n \div multiple ELSE (n \div multiple) + 1)
        * multiple

SplitPad_ceilBefore(pad) == <<pad - (pad \div 2), pad \div 2>>

\* before = pad // 2 ; after = pad - before
SplitPad(pad) ==
    LET before == pad \div 2
    IN  <<before, pad - before>>

\* shape of np.pad(m, ((pad_left, pad_right), (pad_top, pad_bot)), mode=mode)
NpPadShape(shape, w) == <<shape[1] + w[1] + w[2], shape[2] + w[3] + w[4]>>

\* (pad_left, pad_right, pad_top, pad_bot) computed from a shape
PadWidths(shape, multiple) ==
    LET nx == shape[1]
        nz == shape[2]
        nx_pad == CeilToMultiple(nx, multiple)
        nz_pad == CeilToMultiple(nz, multiple)
        x == SplitPad(nx_pad - nx)
        z == SplitPad(nz_pad - nz)
    IN  <<x[1], x[2], z[1], z[2]>>

\* A returned value of the padder: what kind of Python object it is, the
\* shapes of the padded arrays it holds (in order), the pad widths np.pad
\* applied to each of them, and the pad_info tuple when one is returned.
PadTypeError ==
    [kind |-> "TypeError", arrays |-> <<>>, applied |-> <<>>, pad_info |-> <<>>]

\* first definition: def pad_model_to_multiple(*models, multiple, mode="edge")
pad_model_to_multiple_variadic(models, multiple) ==
    LET w == PadWidths(models[1], multiple)
        padded == [i \in 1..Len(models) |-> NpPadShape(models[i], w)]
        applied == [i \in 1..Len(models) |-> w]
    IN  IF Len(padded) = 1
        THEN [kind |-> "ndarray", arrays |-> padded,
              applied |-> applied, pad_info |-> <<>>]
        ELSE [kind |-> "tuple", arrays |-> padded,
              applied |-> applied, pad_info |-> <<>>]

\* second definition: def pad_model_to_multiple(model, multiple, mode="edge")
pad_model_to_multiple_single(model, multiple) ==
    LET w == PadWidths(model, multiple)
    IN  [kind |-> "ndarray_and_pad_info", arrays |-> <<NpPadShape(model, w)>>,
         applied |-> <<w>>, pad_info |-> w]

\* The def statements binding the name pad_model_to_multiple, in the order
\* the module body executes them.
PadDefinitions == <<"variadic", "single">>

\* A later def rebinds the name: the module attribute, which the package
\* re-exports, is the last definition executed.
PadBinding == PadDefinitions[Len(PadDefinitions)]

\* The call pad_model_to_multiple(*models, multiple=m) on the bound name.
\* Under the second signature the positional arguments fill model, multiple,
\* mode in that order, so a second positional array collides with the
\* keyword ("got multiple values for argument 'multiple'").
pad_model_to_multiple(models, multiple) ==
    IF PadBinding = "variadic"
    THEN pad_model_to_multiple_variadic(models, multiple)
    ELSE IF Len(models) = 1
         THEN pad_model_to_multiple_single(models[1], multiple)
         ELSE PadTypeError

(* ======================================================================= *)
(* Resampling                                                              *)
(* ======================================================================= *)

\* Spacings are positive multiples of one length unit; an array is its
\* shape together with the object it is: the caller's input array or a
\* freshly interpolated one.

FastPath_either(dx, dz, dh) == dx = dh \/ dz = dh

\* if dx == dh and dz == dh
FastPath(dx, dz, dh) == dx = dh /\ dz = dh

LastCoord_pastEnd(n, d) == n * d

\* x_old[-1] where x_old = np.arange(n) * d
LastCoord(n, d) == (n - 1) * d

\* round(num / den) for num >= 0, den > 0.  Away from a tie the nearest
\* integer; at an exact tie round() goes to the even neighbour when the
\* float quotient is exact, and the rounding error of the float product and
\* quotient can put it on either side otherwise, so both neighbours are
\* possible outcomes.
RoundQuotient(num, den) ==
    LET fl == num \div den
        r  == num % den
    IN  IF 2 * r < den THEN {fl}
        ELSE IF 2 * r > den THEN {fl + 1}
        ELSE {fl, fl + 1}

\* int(round(x_old[-1] / dh)) + 1
NewCount(n_old, d, dh) ==
    {k + 1 : k \in RoundQuotient(LastCoord(n_old, d), dh)}

\* interp(pts).reshape(nx_new, nz_new): one value per point of the
\* nx_new x nz_new mesh (extrapolating outside the old axes)
Interpolated(nx_new, nz_new) ==
    [obj |-> "interpolated", shape |-> <<nx_new, nz_new>>]

\* the possible results of resample_model(model, dx, dz, dh)
resample_model(model, dx, dz, dh) ==
    IF FastPath(dx, dz, dh)
    THEN {[path |-> "identity", array |-> model]}
    ELSE {[path |-> "interp", array |-> Interpolated(nx_new, nz_new)] :
              nx_new \in NewCount(model.shape[1], dx, dh),
              nz_new \in NewCount(model.shape[2], dz, dh)}

(* ======================================================================= *)
(* Calls                                                                   *)
(* ======================================================================= *)

\* the worked example of the decomposition
DecompScenario ==
    [nx |-> 512, nz |-> 256, max_cores |-> 16, fw |-> 40, fdorder |-> 4]

DecompInputs ==
    [nx : -1..MaxN, nz : -1..MaxN, max_cores : -1..MaxCores,
     fw : 0..MaxFw, fdorder : 0..MaxOrder]
    \cup {DecompScenario}

\* the worked example of the padder
PadScenarioShape == <<17, 33>>

PadShapes == ((1..MaxDim) \X (1..MaxDim)) \cup {PadScenarioShape}

PadMultiples == (1..MaxMultiple) \cup {16}

PadModelLists ==
    UNION {[1..k -> PadShapes] : k \in 1..MaxModels}

ResampleModels ==
    [obj : {"input"}, shape : (1..MaxDim) \X (1..MaxDim)]

Spacings == 1..MaxSpacing

NoValue == <<>>

Init ==
    /\ pc = "idle"
    /\ args = NoValue
    /\ ret = NoValue

CallSuggest ==
    /\ pc = "idle"
    /\ \E a \in DecompInputs :
         /\ args' = a
         /\ ret' = suggest_domain_decomposition_sofi(
                       a.nx, a.nz, a.max_cores, a.fw, a.fdorder)
    /\ pc' = "decomp"

CallPad ==
    /\ pc = "idle"
    /\ \E models \in PadModelLists, multiple \in PadMultiples :
         /\ args' = [models |-> models, multiple |-> multiple]
         /\ ret' = pad_model_to_multiple(models, multiple)
    /\ pc' = "pad"

CallResample ==
    /\ pc = "idle"
    /\ \E model \in ResampleModels, dx \in Spacings, dz \in Spacings,
          dh \in Spacings :
         /\ args' = [model |-> model, dx |-> dx, dz |-> dz, dh |-> dh]
         /\ ret' \in resample_model(model, dx, dz, dh)
    /\ pc' = "resample"

Return ==
    /\ pc # "idle"
    /\ pc' = "idle"
    /\ args' = NoValue
    /\ ret' = NoValue

Next == CallSuggest \/ CallPad \/ CallResample \/ Return

Spec == Init /\ [][Next]_vars

(* ======================================================================= *)
(* Properties of the domain decomposition                                  *)
(* ======================================================================= *)

Returned == pc = "decomp"

\* nx, nz >= 1, max_cores >= 1, fw >= 0, fdorder >= 0
WellFormed ==
    /\ args.nx >= 1 /\ args.nz >= 1 /\ args.max_cores >= 1
    /\ args.fw >= 0 /\ args.fdorder >= 0

min_block_of_call == 2 * args.fw + 2 * args.fdorder

\* (fx, fy) divides the grid of the call evenly
DividesGrid(fx, fy) == args.nx % fx = 0 /\ args.nz % fy = 0

\* both local dimensions of (fx, fy) reach min_block
BlocksReachMin(fx, fy) ==
    /\ args.nx \div fx >= min_block_of_call
    /\ args.nz \div fy >= min_block_of_call

\* (fx, fy) is within the budget and passes both tests
FeasiblePair(fx, fy) ==
    /\ fx * fy <= args.max_cores
    /\ DividesGrid(fx, fy)
    /\ BlocksReachMin(fx, fy)

\* C1: for well-formed inputs, a returned layout with total_processes > 1
\* divides nx and nz evenly and leaves both local sizes >= min_block.
C1_MultiProcessLayoutIsFeasible ==
    (Returned /\ WellFormed /\ ret.total_procs > 1) =>
        /\ DividesGrid(ret.procs_x, ret.procs_z)
        /\ BlocksReachMin(ret.procs_x, ret.procs_z)

C1_Witness ==
    /\ Returned /\ WellFormed
    /\ ret.total_procs > 1
    /\ ret.procs_x > 1 /\ ret.procs_z > 1
    /\ min_block_of_call > 0

\* C2 as stated: every layout returned for well-formed inputs leaves both
\* local sizes >= min_block.
C2_EveryLayoutReachesMinBlock ==
    (Returned /\ WellFormed) => BlocksReachMin(ret.procs_x, ret.procs_z)

\* C2 amended: every layout returned for well-formed inputs whose whole grid
\* reaches min_block (nx >= min_block and nz >= min_block) leaves both local
\* sizes >= min_block.
C2_LayoutReachesMinBlockWhenGridDoes ==
    (/\ Returned /\ WellFormed
     /\ args.nx >= min_block_of_call /\ args.nz >= min_block_of_call) =>
        BlocksReachMin(ret.procs_x, ret.procs_z)

C2_Witness ==
    /\ Returned /\ WellFormed
    /\ min_block_of_call > 0
    /\ args.nx >= 2 * min_block_of_call /\ args.nz >= min_block_of_call
    /\ args.max_cores >= 2
    /\ ret.total_procs >= 2

\* C3: no pair within the budget that passes the divisibility and the
\* minimum-block tests has a larger product than the returned
\* total_processes.
C3_Maximality ==
    Returned =>
        ~ \E fx \in 1..Max2(1, args.max_cores), fy \in 1..Max2(1, args.max_cores) :
              FeasiblePair(fx, fy) /\ fx * fy > ret.total_procs

C3_Witness ==
    /\ Returned /\ WellFormed
    /\ ret.total_procs > 1
    /\ ret.total_procs < args.max_cores
    /\ \E fx \in 1..args.max_cores, fy \in 1..args.max_cores :
          FeasiblePair(fx, fy) /\ fx * fy < ret.total_procs /\ fx * fy > 1

\* C4: a call with max_cores < 1, nx <= 0 or nz <= 0 raises an error
\* instead of returning a layout.
C4_InvalidInputRaises ==
    (Returned /\ (args.max_cores < 1 \/ args.nx <= 0 \/ args.nz <= 0)) =>
        ret.raised

\* C5: the call (nx=512, nz=256, max_cores=16, fw=40, fdorder=4) has
\* min_block = 88 and returns exactly (4, 2, 2, 8).
C5_Scenario ==
    (Returned /\ args = DecompScenario) =>
        /\ min_block_of_call = 88
        /\ <<ret.procs_x, ret.procs_z, ret.threads_per_proc, ret.total_procs>>
               = <<4, 2, 2, 8>>

C5_Witness ==
    /\ Returned
    /\ args.nx = 512 /\ args.nz = 256 /\ args.max_cores = 16
    /\ args.fw = 40 /\ args.fdorder = 4
    /\ ~ret.raised
    /\ ret.procs_x = 4

\* no candidate of the scan passes both tests
NoCandidatePasses ==
    ~ \E nproc \in 1..args.max_cores, fx \in 1..args.max_cores :
          /\ fx <= nproc /\ nproc % fx = 0
          /\ DividesGrid(fx, nproc \div fx)
          /\ BlocksReachMin(fx, nproc \div fx)

\* C6: for well-formed inputs the call returns without error a layout with
\* total_processes = procs_x * procs_z and 1 <= total_processes <= max_cores,
\* and the layout is (1, 1) with total_processes = 1 when no candidate
\* passes the tests.
C6_AlwaysReturnsLayoutWithinBudget ==
    (Returned /\ WellFormed) =>
        /\ ~ret.raised
        /\ ret.total_procs = ret.procs_x * ret.procs_z
        /\ 1 <= ret.total_procs /\ ret.total_procs <= args.max_cores
        /\ NoCandidatePasses =>
              (ret.procs_x = 1 /\ ret.procs_z = 1 /\ ret.total_procs = 1)

C6_Witness ==
    /\ Returned /\ WellFormed
    /\ args.max_cores > 1
    /\ NoCandidatePasses
    /\ ret.procs_x = 1 /\ ret.procs_z = 1 /\ ret.total_procs = 1

(* ======================================================================= *)
(* Properties of the padder                                                *)
(* ======================================================================= *)

PadReturned == pc = "pad" /\ ret.kind # "TypeError"

\* n_pad is the smallest multiple of m that is >= n
SmallestMultipleAtLeast(n_pad, n, m) ==
    /\ n_pad % m = 0
    /\ 0 <= n_pad - n
    /\ n_pad - n < m

\* the padded shape of the first model under the first (shadowed) definition
VariadicFirstShape ==
    pad_model_to_multiple_variadic(args.models, args.multiple).arrays[1]

\* the offsets applied to the first model under the first definition
VariadicFirstOffsets ==
    pad_model_to_multiple_variadic(args.models, args.multiple).applied[1]

\* C7: for multiple >= 1 and a shape (nx, nz) with nx, nz >= 1, both
\* dimensions of the padded shape are multiples of `multiple`, each the
\* smallest one >= the original dimension; under either definition.
C7_PaddedShapeIsSmallestMultiple ==
    /\ PadReturned =>
          /\ SmallestMultipleAtLeast(ret.arrays[1][1], args.models[1][1],
                                     args.multiple)
          /\ SmallestMultipleAtLeast(ret.arrays[1][2], args.models[1][2],
                                     args.multiple)
    /\ pc = "pad" =>
          /\ SmallestMultipleAtLeast(VariadicFirstShape[1], args.models[1][1],
                                     args.multiple)
          /\ SmallestMultipleAtLeast(VariadicFirstShape[2], args.models[1][2],
                                     args.multiple)

C7_Witness ==
    /\ PadReturned
    /\ args.multiple > 1
    /\ args.models[1][1] % args.multiple # 0
    /\ args.models[1][2] % args.multiple = 0
    /\ ret.arrays[1][1] > args.models[1][1]
    /\ ret.arrays[1][2] = args.models[1][2]

\* offsets w = (left, right, top, bottom) split the padding of `shape` up to
\* `padded` with the odd sample on the high-index side
OffsetsSplit(w, shape, padded) ==
    /\ w[1] + w[2] = padded[1] - shape[1]
    /\ w[3] + w[4] = padded[2] - shape[2]
    /\ w[1] = (padded[1] - shape[1]) \div 2
    /\ w[3] = (padded[2] - shape[2]) \div 2
    /\ w[2] - w[1] \in {0, 1}
    /\ w[4] - w[3] \in {0, 1}

\* C8: the offsets satisfy left + right = nx_pad - nx, top + bottom =
\* nz_pad - nz, left = floor((nx_pad - nx)/2), top = floor((nz_pad - nz)/2),
\* right - left and bottom - top in {0, 1}; shape (17, 33) with multiple 16
\* gives shape (32, 48) and offsets (7, 8, 7, 8); under either definition.
C8_OffsetsSplitPadding ==
    /\ PadReturned =>
          /\ OffsetsSplit(ret.pad_info, args.models[1], ret.arrays[1])
          /\ (args.models[1] = <<17, 33>> /\ args.multiple = 16) =>
                (ret.arrays[1] = <<32, 48>> /\ ret.pad_info = <<7, 8, 7, 8>>)
    /\ pc = "pad" =>
          /\ OffsetsSplit(VariadicFirstOffsets, args.models[1],
                          VariadicFirstShape)
          /\ (args.models[1] = <<17, 33>> /\ args.multiple = 16) =>
                (/\ VariadicFirstShape = <<32, 48>>
                 /\ VariadicFirstOffsets = <<7, 8, 7, 8>>)

C8_Witness ==
    /\ PadReturned
    /\ args.models[1] = <<17, 33>>
    /\ args.multiple = 16
    /\ ret.pad_info[2] = ret.pad_info[1] + 1
    /\ ret.arrays[1] = <<32, 48>>

\* C9: the exported pad_model_to_multiple returns a single padded array when
\* exactly one model is passed, and otherwise a sequence of the padded
\* arrays in the order of the inputs.
C9_SingleArrayOrSameOrderSequence ==
    pc = "pad" =>
        /\ Len(args.models) = 1 => ret.kind = "ndarray"
        /\ Len(args.models) > 1 =>
              /\ ret.kind = "tuple"
              /\ Len(ret.arrays) = Len(args.models)
              /\ \A i \in 1..Len(args.models) :
                    /\ ret.arrays[i][1] >= args.models[i][1]
                    /\ ret.arrays[i][2] >= args.models[i][2]
                    /\ ret.arrays[i][1] - args.models[i][1]
                           = ret.arrays[1][1] - args.models[1][1]
                    /\ ret.arrays[i][2] - args.models[i][2]
                           = ret.arrays[1][2] - args.models[1][2]

\* C10: pad_model_to_multiple(a, b, multiple=m) with a and b of the same
\* shape succeeds and pads both with the same offsets, hence to the same
\* shape.
C10_CoRegistration ==
    (/\ pc = "pad"
     /\ Len(args.models) = 2
     /\ args.models[1] = args.models[2]) =>
        /\ ret.kind # "TypeError"
        /\ Len(ret.applied) = 2
        /\ ret.applied[1] = ret.applied[2]
        /\ ret.arrays[1] = ret.arrays[2]

(* ======================================================================= *)
(* Tie-breaking and monotonicity of the decomposition                      *)
(* ======================================================================= *)

SomePairFeasible ==
    \E fx \in 1..Max2(1, args.max_cores), fy \in 1..Max2(1, args.max_cores) :
        FeasiblePair(fx, fy)

\* C13: when some pair is feasible, the returned layout is feasible with
\* the maximal product, and among the feasible pairs with that product it
\* is the one with the smallest fx (the first met by the scan); a later
\* pair with an equal product never replaces it.
C13_FirstEncounteredWins ==
    (Returned /\ SomePairFeasible) =>
        /\ FeasiblePair(ret.procs_x, ret.procs_z)
        /\ ret.procs_x * ret.procs_z = ret.total_procs
        /\ \A fx \in 1..args.max_cores, fy \in 1..args.max_cores :
              (FeasiblePair(fx, fy) /\ fx * fy >= ret.total_procs) =>
                  (fx * fy = ret.total_procs /\ fx >= ret.procs_x)

C13_Witness ==
    /\ Returned /\ WellFormed
    /\ ret.total_procs > 1
    /\ ret.procs_x > 1
    /\ \E fx \in 1..args.max_cores, fy \in 1..args.max_cores :
          /\ FeasiblePair(fx, fy)
          /\ fx * fy = ret.total_procs
          /\ fx > ret.procs_x

\* total_processes returned for the grid and constraints of the call under
\* another budget m
TotalProcsUnder(m) ==
    suggest_domain_decomposition_sofi(
        args.nx, args.nz, m, args.fw, args.fdorder).total_procs

\* C14: for fixed nx, nz, fw, fdorder the returned total_processes is
\* non-decreasing in max_cores (from 1 up), and threads_per_process *
\* total_processes never exceeds max_cores when max_cores >= 1.
C14_MonotoneAndWithinBudget ==
    (Returned /\ args.max_cores >= 1) =>
        /\ \A m1 \in 1..args.max_cores : TotalProcsUnder(m1) <= ret.total_procs
        /\ ret.threads_per_proc * ret.total_procs <= args.max_cores

C14_Witness ==
    /\ Returned /\ WellFormed
    /\ ret.total_procs > 1
    /\ ret.threads_per_proc > 1
    /\ ret.threads_per_proc * ret.total_procs < args.max_cores
    /\ \E m1 \in 1..args.max_cores : TotalProcsUnder(m1) < ret.total_procs

(* ======================================================================= *)
(* Properties of the resampler                                             *)
(* ======================================================================= *)

Resampled == pc = "resample"

\* C11: resample_model(model, h, h, h) returns the input model itself (same
\* shape, same samples, nothing interpolated), and the fast path is taken
\* exactly when dx = dh and dz = dh.
C11_IdentityFastPath ==
    Resampled =>
        /\ (ret.path = "identity") <=> (args.dx = args.dh /\ args.dz = args.dh)
        /\ (args.dx = args.dh /\ args.dz = args.dh) =>
              /\ ret.array = args.model
              /\ ret.array.obj = "input"
              /\ ret.array.shape = args.model.shape

C11_Witness ==
    /\ Resampled
    /\ args.dx = args.dh /\ args.dz = args.dh
    /\ args.dh > 1
    /\ args.model.shape[1] > 1 /\ args.model.shape[2] > 1
    /\ ret.path = "identity"
    /\ ret.array = args.model

Abs(x) == IF x >= 0 THEN x ELSE -x

\* n_new = round((n_old - 1) * d / dh) + 1, and (n_new - 1) * dh is within
\* one dh of (n_old - 1) * d
CountPreservesExtent(n_new, n_old, d, dh) ==
    /\ n_new >= 1
    /\ 2 * Abs((n_new - 1) * dh - (n_old - 1) * d) <= dh
    /\ Abs((n_new - 1) * dh - (n_old - 1) * d) <= dh

\* C12: on the interpolation path the output shape is (nx_new, nz_new) with
\* nx_new = round((nx_old-1)*dx/dh) + 1 and nz_new likewise, and
\* (nx_new-1)*dh is within one dh of (nx_old-1)*dx, (nz_new-1)*dh within one
\* dh of (nz_old-1)*dz.
C12_ShapeAndExtent ==
    (Resampled /\ ret.path = "interp") =>
        /\ ret.array.obj = "interpolated"
        /\ CountPreservesExtent(ret.array.shape[1], args.model.shape[1],
                                args.dx, args.dh)
        /\ CountPreservesExtent(ret.array.shape[2], args.model.shape[2],
                                args.dz, args.dh)

C12_Witness ==
    /\ Resampled /\ ret.path = "interp"
    /\ args.dx # args.dh /\ args.dz # args.dh
    /\ ret.array.shape[1] > args.model.shape[1]
    /\ ret.array.shape[2] < args.model.shape[2]
    /\ (ret.array.shape[1] - 1) * args.dh # (args.model.shape[1] - 1) * args.dx

====
